---- MODULE Spec2Model ----
(***************************************************************************)
(* A model of src/src/echonest/audio.py: the cached analysis record        *)
(* (AudioAnalysis), the quantum collections and their back-references      *)
(* (AudioQuantumList / AudioQuantum), the hierarchy navigation, and the    *)
(* sample buffer with its assembly (AudioData, getpieces).                 *)
(*                                                                         *)
(* Python objects live in a heap: records, lists and quanta are identified *)
(* by their position in it, and an object's __dict__ is a function from    *)
(* attribute names to values, so that an attribute that was never set (or  *)
(* was deleted) is a name missing from its DOMAIN.                         *)
(***************************************************************************)
EXTENDS Integers, Sequences, FiniteSets, TLC

\* ------------------------------------------------------------------------
\* Bounds of the model
\* ------------------------------------------------------------------------
MaxOps == 3
MaxRestores == 1
\* Times are multiples of 1/TimeDen seconds.
TimeDen == 20
SampleRate == 10
SrcRows == 8
MaxSegs == 2
AccRows == 3
MaxOther == 2
MaxTime == 3
MaxBars == 2
MaxBeats == 3
MaxStep == 3

\* ------------------------------------------------------------------------
\* Values
\* ------------------------------------------------------------------------
\* Python's None as the value of a cached variable or of a local.
None == [t |-> "none"]
\* Python's None as the value of a container attribute (object ids are >= 1).
NoneRef == 0

ListRef(lid) == [t |-> "list", id |-> lid]
IsListRef(v) == v.t = "list"

Range(s) == {s[i] : i \in DOMAIN s}

\* Results of calls
PyNone == [t |-> "None"]
QuantumRes(qid) == [t |-> "quantum", id |-> qid]
ListRes(lst) == [t |-> "list", list |-> lst]
Raised(exc) == [t |-> "raised", exc |-> exc]

\* AudioAnalysis.CACHED_VARIABLES, in the order the class lists them.
CACHED_VARIABLES ==
  << "bars", "beats", "duration", "end_of_fade_in", "key", "loudness",
     "metadata", "mode", "sections", "segments", "start_of_fade_out",
     "tatums", "tempo", "time_signature" >>

CachedNames == Range(CACHED_VARIABLES)

\* ------------------------------------------------------------------------
\* The heap
\* ------------------------------------------------------------------------
\* recs   : Seq of [id, parsers, fields]      (AudioAnalysis objects)
\* lists  : Seq of [dict, items]              (AudioQuantumList objects)
\* quanta : [<<list id, index>> -> dict]      (AudioQuantum objects, named by
\*          the list and position at which the parser created them)
EmptyHeap == [recs |-> << >>, lists |-> << >>, quanta |-> << >>]

\* obj.attr = v on a __dict__ d.
SetKey(d, k, v) == [x \in (DOMAIN d) \cup {k} |-> IF x = k THEN v ELSE d[x]]
\* del d[k]
DelKey(d, k) == [x \in (DOMAIN d) \ {k} |-> d[x]]
HasKey(d, k) == k \in DOMAIN d

\* AudioQuantum.__init__
NewQuantum(start, duration, kind) ==
  [start |-> start, duration |-> duration, kind |-> kind]

\* AudioQuantum.get_end
End(q) == q.start + q.duration

\* AudioQuantumList.__init__ : an empty list of a kind, container None.
NewListDict(kind) == [kind |-> kind, container |-> NoneRef]

\* ------------------------------------------------------------------------
\* Parsers
\* ------------------------------------------------------------------------
\* A document is what analyze.get_<name>(id) returns: [name, nodes] for the
\* five collections (nodes: the start, and for sections and segments the
\* duration, of each element in document order), [name, data] otherwise.

\* dataParser: quanta from start times; each duration runs to the next start,
\* the last one repeats the one before it, a lone element keeps duration 0.
dataParserDurations(nodes) ==
  LET n == Len(nodes)
      d == [i \in 1..n |-> IF i < n THEN nodes[i + 1].start - nodes[i].start ELSE 0]
  IN [i \in 1..n |-> IF n > 1 /\ i = n THEN d[n - 1] ELSE d[i]]

dataParser(tag, doc) ==
  LET dur == dataParserDurations(doc.nodes)
  IN [kind |-> tag,
      quanta |-> [i \in 1..Len(doc.nodes) |-> NewQuantum(doc.nodes[i].start, dur[i], tag)]]

\* attributeParser (sections) and fullSegmentsParser (segments): start and
\* duration are read from each node.
attributeParser(tag, doc) ==
  [kind |-> tag,
   quanta |-> [i \in 1..Len(doc.nodes) |->
                 NewQuantum(doc.nodes[i].start, doc.nodes[i].duration, tag)]]

\* globalParserFloat, globalParserInt, metadataParser: the parsed datum.
globalParser(doc) == [t |-> "val", v |-> doc.data]

\* PARSERS: the parser registered for each cached variable.
PARSERS ==
  [n \in CachedNames |->
     CASE n = "bars" -> "barsParser"
       [] n = "beats" -> "beatsParser"
       [] n = "tatums" -> "tatumsParser"
       [] n = "sections" -> "sectionsParser"
       [] n = "segments" -> "fullSegmentsParser"
       [] n = "metadata" -> "metadataParser"
       [] n \in {"key", "mode", "time_signature"} -> "globalParserInt"
       [] OTHER -> "globalParserFloat"]

ListParsers ==
  {"barsParser", "beatsParser", "tatumsParser", "sectionsParser", "fullSegmentsParser"}

\* What a parser function builds from a document, before any object exists:
\* a list to allocate ([kind, quanta]) or a plain value.
ParsedList(p, doc) ==
  CASE p = "barsParser" -> dataParser("bar", doc)
    [] p = "beatsParser" -> dataParser("beat", doc)
    [] p = "tatumsParser" -> dataParser("tatum", doc)
    [] p = "sectionsParser" -> attributeParser("section", doc)
    [] p = "fullSegmentsParser" -> attributeParser("segment", doc)

\* Allocate the AudioQuantumList a parser returns: a new list object, its
\* container None, holding new quanta that have no container attribute yet.
AllocList(h, parsed) ==
  LET lid == Len(h.lists) + 1
      n == Len(parsed.quanta)
      ids == [i \in 1..n |-> <<lid, i>>]
      newq == [qid \in {<<lid, i>> : i \in 1..n} |-> parsed.quanta[qid[2]]]
  IN [heap |-> [h EXCEPT !.lists = Append(@, [dict |-> NewListDict(parsed.kind), items |-> ids]),
                         !.quanta = IF n = 0 THEN @ ELSE IF DOMAIN @ = {} THEN newq ELSE newq @@ @],
      value |-> ListRef(lid)]

\* value = parseFunction(value): the standard parsers as above; "returnsNone"
\* is a caller-supplied parser whose result is None.
ApplyParser(h, p, doc) ==
  IF p \in ListParsers THEN AllocList(h, ParsedList(p, doc))
  ELSE IF p = "returnsNone" THEN [heap |-> h, value |-> None]
  ELSE [heap |-> h, value |-> globalParser(doc)]

\* ------------------------------------------------------------------------
\* AudioAnalysis
\* ------------------------------------------------------------------------
\* The constructor's argument: what type(audio) is str, os.path.isfile(audio)
\* and '.' in audio say about it.
AudioArgs ==
  {[str |-> FALSE, isfile |-> FALSE, dot |-> FALSE]} \cup
  {[str |-> TRUE, isfile |-> f, dot |-> d] : f \in BOOLEAN, d \in BOOLEAN}

\* __init__'s branches: neither a file nor a URL means the argument is the ID.
RaisesTypeError(audio) == ~audio.str
NeedsUploadEager(audio) == TRUE
NeedsUpload(audio) == audio.isfile \/ audio.dot

\* The parsers argument: a map from some cached variable names to parsers.
ParserOf(rec, name) == IF name \in DOMAIN rec.parsers THEN rec.parsers[name] ELSE "absent"

\* self.__setattr__(name, value)
SetAttrDropped(h, r, name, value) == h
SetAttr(h, r, name, value) == [h EXCEPT !.recs[r].fields[name] = value]

\* object.__getattribute__(self, name)
Field(h, r, name) == h.recs[r].fields[name]

\* __init__ after the ID is known: parsers, id, and every cached variable None.
NewRecord(h, id, parsers) ==
  [h EXCEPT !.recs = Append(@, [id |-> id, parsers |-> parsers,
                                fields |-> [n \in CachedNames |-> None]])]

\* AudioQuantumList.attach: the list's container is the record, and every
\* member's container is the list.
AttachListOnly(h, lid, r) ==
  [h EXCEPT !.lists[lid].dict = SetKey(@, "container", r)]
Attach(h, lid, r) ==
  LET members == Range(h.lists[lid].items)
  IN [h EXCEPT !.lists[lid].dict = SetKey(@, "container", r),
               !.quanta = [qid \in DOMAIN @ |->
                             IF qid \in members THEN SetKey(@[qid], "container", lid)
                             ELSE @[qid]]]

\* __getattribute__, the test `object.__getattribute__(self, name) is None`.
IsUnpopulated(h, r, name) == Field(h, r, name) = None

\* __getattribute__: value = getter(id), then the registered parser, if any.
FetchValue(h, r, name, doc) ==
  LET p == ParserOf(h.recs[r], name)
  IN IF p = "absent" THEN [heap |-> h, value |-> [t |-> "doc", doc |-> doc]]
     ELSE ApplyParser(h, p, doc)

\* A getter or a parser that fails: the document says which of the two
\* raises (the parser only if one is registered for the name).
IsFailure(doc) == "error" \in DOMAIN doc
FailDoc(name, what) == [name |-> name, error |-> what]
FetchRaises(h, r, name, doc) ==
  IsFailure(doc) /\ (doc.error = "getter" \/ ParserOf(h.recs[r], name) # "absent")

\* __getattribute__: attach the stored value when it is an AudioQuantumList.
AttachIfList(h, r, name) ==
  IF IsListRef(Field(h, r, name)) THEN Attach(h, Field(h, r, name).id, r) ELSE h

\* __getattribute__ run by one caller from start to end; doc is what the
\* getter returns if it is called.
GetAttribute(h, r, name, doc) ==
  IF IsUnpopulated(h, r, name)
  THEN IF FetchRaises(h, r, name, doc)
       THEN [heap |-> h, value |-> Raised(doc.error), fetched |-> TRUE, raised |-> TRUE]
       ELSE LET f == FetchValue(h, r, name, doc)
                h2 == AttachIfList(SetAttr(f.heap, r, name, f.value), r, name)
            IN [heap |-> h2, value |-> Field(h2, r, name), fetched |-> TRUE,
                raised |-> FALSE]
  ELSE [heap |-> h, value |-> Field(h, r, name), fetched |-> FALSE, raised |-> FALSE]

\* refreshCachedVariables: for each cached variable in order, set it to None
\* and read it; docs[name] is what the getter returns for it.  A read that
\* raises ends the loop.
RECURSIVE ClearThenRefreshFrom(_, _, _, _)
ClearThenRefreshFrom(h, r, docs, i) ==
  IF i > Len(CACHED_VARIABLES) THEN h
  ELSE LET name == CACHED_VARIABLES[i]
           h1 == IF i = 1 THEN [h EXCEPT !.recs[r].fields = [n \in CachedNames |-> None]]
                 ELSE h
           g == GetAttribute(h1, r, name, docs[name])
       IN IF g.raised THEN g.heap ELSE ClearThenRefreshFrom(g.heap, r, docs, i + 1)
RECURSIVE RefreshFrom(_, _, _, _)
RefreshFrom(h, r, docs, i) ==
  IF i > Len(CACHED_VARIABLES) THEN h
  ELSE LET name == CACHED_VARIABLES[i]
           h1 == SetAttr(h, r, name, None)
           g == GetAttribute(h1, r, name, docs[name])
       IN IF g.raised THEN g.heap ELSE RefreshFrom(g.heap, r, docs, i + 1)

\* The position in CACHED_VARIABLES at which a refresh raises, 0 if none.
FirstFailing(h, r, docs) ==
  LET bad == {i \in DOMAIN CACHED_VARIABLES :
                FetchRaises(h, r, CACHED_VARIABLES[i], docs[CACHED_VARIABLES[i]])}
  IN IF bad = {} THEN 0 ELSE CHOOSE i \in bad : \A j \in bad : i <= j

refreshCachedVariables(h, r, docs) == RefreshFrom(h, r, docs, 1)

\* AudioQuantum.__getstate__: the __dict__ without 'container' (a KeyError
\* when the quantum has none).
QuantumGetState(d) == DelKey(d, "container")

\* AudioQuantumList.__getstate__: the __dict__ without 'container'.
ListGetState(d) == DelKey(d, "container")

\* What pickling a record writes: its __dict__, each list as its state and
\* its members' states in order.
PickledValue(h, v) ==
  IF IsListRef(v)
  THEN [t |-> "list",
        dict |-> ListGetState(h.lists[v.id].dict),
        items |-> [i \in DOMAIN h.lists[v.id].items |->
                     QuantumGetState(h.quanta[h.lists[v.id].items[i]])]]
  ELSE v

PickleRaises(h, r) ==
  \E n \in CachedNames :
     /\ IsListRef(Field(h, r, n))
     /\ \E qid \in Range(h.lists[Field(h, r, n).id].items) : ~HasKey(h.quanta[qid], "container")

Pickle(h, r) ==
  [id |-> h.recs[r].id, parsers |-> h.recs[r].parsers,
   fields |-> [n \in CachedNames |-> PickledValue(h, Field(h, r, n))]]

\* Unpickling rebuilds the objects of a pickled record from their states:
\* every list and quantum is a new object whose __dict__ is what was written.
RECURSIVE LoadFrom(_, _, _, _)
LoadFrom(h, r, state, i) ==
  IF i > Len(CACHED_VARIABLES) THEN h
  ELSE LET name == CACHED_VARIABLES[i]
           v == state.fields[name]
       IN IF v.t = "list"
          THEN LET lid == Len(h.lists) + 1
                   n == Len(v.items)
                   newq == [qid \in {<<lid, k>> : k \in 1..n} |-> v.items[qid[2]]]
                   h1 == [h EXCEPT
                            !.lists = Append(@, [dict |-> v.dict,
                                                 items |-> [k \in 1..n |-> <<lid, k>>]]),
                            !.quanta = IF n = 0 THEN @
                                       ELSE IF DOMAIN @ = {} THEN newq ELSE newq @@ @]
               IN LoadFrom(SetAttr(h1, r, name, ListRef(lid)), r, state, i + 1)
          ELSE LoadFrom(SetAttr(h, r, name, v), r, state, i + 1)

\* __setstate__, the loop: attach every cached variable that is a list.
RECURSIVE ReattachFrom(_, _, _)
ReattachFrom(h, r, i) ==
  IF i > Len(CACHED_VARIABLES) THEN h
  ELSE ReattachFrom(AttachIfList(h, r, CACHED_VARIABLES[i]), r, i + 1)

\* __setstate__ on a new record object: self.__dict__.update(state), then the
\* loop.
SetStateNoAttach(h, state) ==
  LET r == Len(h.recs) + 1
  IN LoadFrom(NewRecord(h, state.id, state.parsers), r, state, 1)
SetState(h, state) ==
  LET r == Len(h.recs) + 1
      h1 == LoadFrom(NewRecord(h, state.id, state.parsers), r, state, 1)
  IN ReattachFrom(h1, r, 1)

\* ------------------------------------------------------------------------
\* AudioData
\* ------------------------------------------------------------------------
\* A numpy array of samples: its shape (rows, or rows and channels) and its
\* rows.  Only the rows up to the last one written are kept (head); every
\* row after them is zero.  A row is one number standing for its channels.
Zeros(shape) == [shape |-> shape, head |-> << >>]
Rows(d) == d.shape[1]
Row(d, i) == IF i < Len(d.head) THEN d.head[i + 1] ELSE 0

Min(a, b) == IF a < b THEN a ELSE b
Max(a, b) == IF a > b THEN a ELSE b

\* numpy's d[a:b] for 0 <= a, 0 <= b: the bounds are clipped to the array.
ClipLo(d, a) == Min(a, Rows(d))
SliceLen(d, a, b) == Max(Min(b, Rows(d)) - ClipLo(d, a), 0)
ArraySlice(d, a, b) ==
  [shape |-> [d.shape EXCEPT ![1] = SliceLen(d, a, b)],
   head |-> [i \in 1..SliceLen(d, a, b) |-> Row(d, ClipLo(d, a) + i - 1)]]

\* numpy's d[a:b] = v: v's rows are copied when the clipped target has as
\* many rows as v; a one-row v is broadcast over the target (over none of it
\* when the target is empty); anything else is a ValueError.
AssignFits(d, a, b, v) == SliceLen(d, a, b) = Rows(v) \/ Rows(v) = 1
ArrayAssign(d, a, b, v) ==
  LET m == SliceLen(d, a, b)
      lo == ClipLo(d, a)
      n == Max(Len(d.head), lo + m)
  IN [d EXCEPT !.head =
        [i \in 1..(IF m = 0 THEN Len(d.head) ELSE n) |->
           IF i - 1 >= lo /\ i - 1 < lo + m
           THEN (IF Rows(v) = m THEN Row(v, i - 1 - lo) ELSE Row(v, 0))
           ELSE Row(d, i - 1)]]

\* AudioData.__init__(ndarray=..., sampleRate=...): zeros of the array's
\* shape, endindex = len(ndarray), the array copied in.
AudioDataFromArray(nd, sampleRate) ==
  [data |-> ArrayAssign(Zeros(nd.shape), 0, Rows(nd), nd),
   sampleRate |-> sampleRate, numChannels |-> 0, endindex |-> Rows(nd)]

\* AudioData.__init__(shape=..., sampleRate=..., numChannels=...): zeros,
\* endindex 0.
AudioDataFromShape(shape, sampleRate, numChannels) ==
  [data |-> Zeros(shape), sampleRate |-> sampleRate, numChannels |-> numChannels,
   endindex |-> 0]

\* self.data = None: an AudioData made without array and shape.
NoData == [shape |-> << >>, head |-> << >>]
\* A sample rate that was not given (None).
NoRate == 0

\* AudioData(): no data, endindex 0.
EmptyAudioData ==
  [data |-> NoData, sampleRate |-> NoRate, numChannels |-> 0, endindex |-> 0]

\* AudioData.__len__
LenAD(ad) == IF ad.data = NoData THEN 0 ELSE Rows(ad.data)

\* int(t * sampleRate) for a time t >= 0 given in 1/TimeDen seconds.
ToSample(t, sampleRate) == (t * sampleRate) \div TimeDen

\* AudioData.__getitem__ for an index with start and duration (floats), and
\* getslice: the rows from int(start*sampleRate) to
\* int((start+duration)*sampleRate), as a new AudioData.
GetItem(ad, q) ==
  AudioDataFromArray(
    ArraySlice(ad.data, ToSample(q.start, ad.sampleRate),
               ToSample(q.start + q.duration, ad.sampleRate)),
    ad.sampleRate)

\* AudioData.append: the assignment may raise; otherwise endindex advances by
\* len(as2).
AppendAtZero(ad, as2) ==
  IF AssignFits(ad.data, 0, LenAD(as2), as2.data)
  THEN [raised |-> FALSE,
        ad |-> [ad EXCEPT !.data = ArrayAssign(@, 0, LenAD(as2), as2.data),
                          !.endindex = @ + LenAD(as2)]]
  ELSE [raised |-> TRUE, ad |-> ad]
AppendAD(ad, as2) ==
  IF AssignFits(ad.data, ad.endindex, ad.endindex + LenAD(as2), as2.data)
  THEN [raised |-> FALSE,
        ad |-> [ad EXCEPT !.data = ArrayAssign(@, ad.endindex, ad.endindex + LenAD(as2),
                                               as2.data),
                          !.endindex = @ + LenAD(as2)]]
  ELSE [raised |-> TRUE, ad |-> ad]

\* getpieces: the length of the new array.
RECURSIVE PiecesDur(_, _)
PiecesDur(segs, sampleRate) ==
  IF segs = << >> THEN 0
  ELSE ToSample(Head(segs).duration, sampleRate) + PiecesDur(Tail(segs), sampleRate)

\* "another two seconds just for goodwill"
Goodwill == 100000

\* getpieces: the loop of appends; a ValueError of an append ends it.
RECURSIVE PiecesAppend(_, _, _)
PiecesAppend(newAD, audioData, segs) ==
  IF segs = << >> THEN [raised |-> FALSE, ad |-> newAD]
  ELSE LET a == AppendAD(newAD, GetItem(audioData, Head(segs)))
       IN IF a.raised THEN a ELSE PiecesAppend(a.ad, audioData, Tail(segs))

getpieces(audioData, segs) ==
  LET dur == PiecesDur(segs, audioData.sampleRate) + Goodwill
      newshape == IF Len(audioData.data.shape) > 1
                  THEN <<dur, audioData.data.shape[2]>> ELSE <<dur>>
      newchans == IF Len(audioData.data.shape) > 1 THEN audioData.data.shape[2] ELSE 1
  IN PiecesAppend(AudioDataFromShape(newshape, audioData.sampleRate, newchans),
                  audioData, segs)

\* What a call on buffers gives: a new AudioData, or the exception raised.
AudioRes(ad) == [t |-> "ad", ad |-> ad]
AudioRaised(exc) == [t |-> "raised", exc |-> exc]

\* numpy.concatenate((d1, d2)): all rows of d1, then all rows of d2; the
\* arrays must agree in every dimension but the first.
ConcatFits(d1, d2) == Tail(d1.shape) = Tail(d2.shape)
Concatenate(d1, d2) ==
  [shape |-> [d1.shape EXCEPT ![1] = Rows(d1) + Rows(d2)],
   head |-> [i \in 1..(IF d2.head = << >> THEN Len(d1.head) ELSE Rows(d1) + Len(d2.head)) |->
               IF i <= Rows(d1) THEN Row(d1, i - 1) ELSE d2.head[i - Rows(d1)]]]

\* AudioData.__add__: a new AudioData of the other's data when one has none
\* (None.copy() is an AttributeError when the other has none either), of
\* both arrays concatenated otherwise; no sample rate is given to it.
Add(ad, as2) ==
  IF ad.data = NoData
  THEN IF as2.data = NoData THEN AudioRaised("AttributeError")
       ELSE AudioRes(AudioDataFromArray(as2.data, NoRate))
  ELSE IF as2.data = NoData THEN AudioRes(AudioDataFromArray(ad.data, NoRate))
  ELSE IF ConcatFits(ad.data, as2.data)
       THEN AudioRes(AudioDataFromArray(Concatenate(ad.data, as2.data), NoRate))
       ELSE AudioRaised("ValueError")

\* d *= float(w), w = num/den: every row scaled, then cut to an integer.
Scale(d, num, den) == [d EXCEPT !.head = [i \in DOMAIN @ |-> (@[i] * num) \div den]]

\* d[:k] += v * w: v is broadcast to the first k rows of d (as far as d has
\* rows).  v must have as many rows as the target or one row, and the same
\* channels or one; a v without channels is broadcast over the channels of
\* d and must then have as many elements as d has channels, or one.
AddFits(d, k, v) ==
  LET m == Min(k, Rows(d))
  IN IF Len(v.shape) > Len(d.shape) THEN FALSE
     ELSE IF Len(v.shape) = Len(d.shape)
     THEN (Rows(v) = m \/ Rows(v) = 1) /\ (Tail(v.shape) = Tail(d.shape) \/ Tail(v.shape) = <<1>>)
     ELSE Rows(v) = d.shape[2] \/ Rows(v) = 1
AddScaled(d, k, v, num, den) ==
  LET m == Min(k, Rows(d))
      rowwise == Len(v.shape) = Len(d.shape) /\ Rows(v) = m /\ Rows(v) # 1
  IN [d EXCEPT !.head =
        [i \in 1..Max(Len(d.head), m) |->
           IF i <= m
           THEN Row(d, i - 1) + ((IF rowwise THEN Row(v, i - 1) ELSE Row(v, 0)) * num) \div den
           ELSE Row(d, i - 1)]]

\* mix(dataA, dataB, mix), mix = ratio.num / ratio.den: the one with the
\* greater endindex is copied and scaled, the other is scaled and added to
\* its first rows.  Neither sample rates nor channels are compared.
mix(dataA, dataB, ratio) ==
  LET aLonger == dataA.endindex > dataB.endindex
      long == IF aLonger THEN dataA ELSE dataB
      short == IF aLonger THEN dataB ELSE dataA
      wl == IF aLonger THEN ratio.num ELSE ratio.den - ratio.num
      ws == ratio.den - wl
  IN IF long.data = NoData \/ short.data = NoData THEN AudioRaised("TypeError")
     ELSE LET newdata == AudioDataFromArray(long.data, NoRate)
              scaled == Scale(newdata.data, wl, ratio.den)
          IN IF AddFits(scaled, short.endindex, short.data)
             THEN AudioRes([newdata EXCEPT
                              !.data = AddScaled(scaled, short.endindex, short.data,
                                                 ws, ratio.den)])
             ELSE AudioRaised("ValueError")

\* ------------------------------------------------------------------------
\* AudioQuantumList.that, and the hierarchy of AudioQuantum
\* ------------------------------------------------------------------------
\* filter(filt, self), in order; keep[x] is what filt says of member x.
FilterSeq(items, keep) ==
  LET F[i \in 0..Len(items)] ==
        IF i = 0 THEN << >>
        ELSE IF keep[items[i]] THEN Append(F[i - 1], items[i]) ELSE F[i - 1]
  IN F[Len(items)]

\* AudioQuantumList.that: a new list of the same kind, container None, of the
\* members for which filt holds.  The new list is referenced by its caller
\* only, so it is a value and not a heap object.
ThatKeepingDict(lst, keep) ==
  [dict |-> lst.dict, items |-> FilterSeq(lst.items, keep)]
That(lst, keep) ==
  [dict |-> NewListDict(lst.dict.kind), items |-> FilterSeq(lst.items, keep)]

\* echonest.selection.overlap(aq): [x.start, x.end) and [aq.start, aq.end)
\* have a point in common.
overlap(aq, x) == Max(x.start, aq.start) < Min(End(x), End(aq))

\* echonest.selection.are_contained_by(aq)
are_contained_by(aq, x) == x.start >= aq.start /\ End(x) <= End(aq)

pars == [tatum |-> "beats", beat |-> "bars", bar |-> "sections"]
chils == [beat |-> "tatums", bar |-> "beats", section |-> "bars"]

\* The record a quantum reaches by self.container.container.
RecordOf(h, qid) == h.lists[h.quanta[qid].container].dict.container

\* AudioQuantum.parent; doc is what the getter returns if the record has to
\* fetch the collection one step up.
parent(h, qid, doc) ==
  LET q == h.quanta[qid]
  IN IF q.kind \notin DOMAIN pars THEN [heap |-> h, value |-> PyNone]
     ELSE LET g == GetAttribute(h, RecordOf(h, qid), pars[q.kind], doc)
              uppers == g.heap.lists[g.value.id]
              found == That(uppers, [x \in Range(uppers.items) |->
                                       overlap(q, g.heap.quanta[x])])
          IN [heap |-> g.heap,
              value |-> IF found.items = << >> THEN PyNone
                        ELSE QuantumRes(found.items[1])]

\* AudioQuantum.children
childrenOverlapping(h, qid, doc) ==
  LET q == h.quanta[qid]
  IN IF q.kind \notin DOMAIN chils THEN [heap |-> h, value |-> PyNone]
     ELSE LET g == GetAttribute(h, RecordOf(h, qid), chils[q.kind], doc)
              downers == g.heap.lists[g.value.id]
          IN [heap |-> g.heap,
              value |-> ListRes(That(downers, [x \in Range(downers.items) |->
                                                 overlap(q, g.heap.quanta[x])]))]
children(h, qid, doc) ==
  LET q == h.quanta[qid]
  IN IF q.kind \notin DOMAIN chils THEN [heap |-> h, value |-> PyNone]
     ELSE LET g == GetAttribute(h, RecordOf(h, qid), chils[q.kind], doc)
              downers == g.heap.lists[g.value.id]
          IN [heap |-> g.heap,
              value |-> ListRes(That(downers, [x \in Range(downers.items) |->
                                                 are_contained_by(q, g.heap.quanta[x])]))]

\* list.index(x), from 0; -1 for the ValueError.
IndexOf(items, x) ==
  IF \E i \in DOMAIN items : items[i] = x
  THEN (CHOOSE i \in DOMAIN items : items[i] = x /\ \A j \in 1..(i - 1) : items[j] # x) - 1
  ELSE -1

\* group[new]: whether the index is in range, Python's negative indices
\* counting from the end.
InRange(items, new) == new < Len(items) /\ new >= 0 - Len(items)
At(items, new) == IF new >= 0 THEN items[new + 1] ELSE items[Len(items) + new + 1]

\* AudioQuantum.prev
prev(h, qid, step) ==
  IF ~HasKey(h.quanta[qid], "container") THEN Raised("AttributeError")
  ELSE LET group == h.lists[h.quanta[qid].container].items
           loc == IndexOf(group, qid)
           new == Max(loc - step, 0)
       IN IF loc >= 0 /\ InRange(group, new) THEN QuantumRes(At(group, new))
          ELSE QuantumRes(qid)

\* AudioQuantum.next
nextUncaught(h, qid, step) ==
  IF ~HasKey(h.quanta[qid], "container") THEN Raised("AttributeError")
  ELSE LET group == h.lists[h.quanta[qid].container].items
           loc == IndexOf(group, qid)
           new == Min(loc + step, Len(group))
       IN IF loc >= 0 /\ InRange(group, new) THEN QuantumRes(At(group, new))
          ELSE Raised("IndexError")
next(h, qid, step) ==
  IF ~HasKey(h.quanta[qid], "container") THEN Raised("AttributeError")
  ELSE LET group == h.lists[h.quanta[qid].container].items
           loc == IndexOf(group, qid)
           new == Min(loc + step, Len(group))
       IN IF loc >= 0 /\ InRange(group, new) THEN QuantumRes(At(group, new))
          ELSE QuantumRes(qid)

\* AudioQuantum.group: the children of the parent, or the quantum's own list
\* when it has no parent.  docs[name] is what the getter of a collection
\* returns if the record has to fetch it; p is what self.parent() returned.
groupOfParent(p, q, docs) ==
  IF p.value = PyNone
  THEN [heap |-> p.heap, value |-> ListRes(p.heap.lists[q.container])]
  ELSE children(p.heap, p.value.id, docs[chils[p.heap.quanta[p.value.id].kind]])

group(h, qid, docs) ==
  groupOfParent(parent(h, qid, IF h.quanta[qid].kind \in DOMAIN pars
                               THEN docs[pars[h.quanta[qid].kind]] ELSE docs["bars"]),
                h.quanta[qid], docs)

\* AudioQuantum.local_context, g being what self.group() returned: (loc,
\* count), loc = 0 when group.index(self) raises.
contextUnguarded(g, qid) ==
  [heap |-> g.heap,
   value |-> [t |-> "context", loc |-> IndexOf(g.value.list.items, qid),
              count |-> Len(g.value.list.items)]]
contextIn(g, qid) ==
  [heap |-> g.heap,
   value |-> [t |-> "context", loc |-> Max(IndexOf(g.value.list.items, qid), 0),
              count |-> Len(g.value.list.items)]]

local_context(h, qid, docs) == contextIn(group(h, qid, docs), qid)

\* ------------------------------------------------------------------------
\* AudioQuantumList.ordered_by and beget
\* ------------------------------------------------------------------------
\* list.reverse
Reverse(s) == [i \in 1..Len(s) |-> s[Len(s) + 1 - i]]

\* list.sort, from low to high and stable: each element goes after the
\* elements already placed whose key is not greater.  keyOf[x] is what the
\* key function says of member x.
InsertByKey(placed, x, keyOf) ==
  LET n == Cardinality({i \in DOMAIN placed : keyOf[placed[i]] <= keyOf[x]})
  IN SubSeq(placed, 1, n) \o <<x>> \o SubSeq(placed, n + 1, Len(placed))

StableSort(items, keyOf) ==
  LET F[i \in 0..Len(items)] ==
        IF i = 0 THEN << >> ELSE InsertByKey(F[i - 1], items[i], keyOf)
  IN F[Len(items)]

\* sorted(iterable, key=..., reverse=...): with reverse the list is reversed,
\* sorted and reversed again, so that equal keys keep their original order.
sortedThenReversed(items, keyOf, reverse) ==
  IF reverse THEN Reverse(StableSort(items, keyOf)) ELSE StableSort(items, keyOf)
sorted(items, keyOf, reverse) ==
  IF reverse THEN Reverse(StableSort(Reverse(items), keyOf)) ELSE StableSort(items, keyOf)

\* AudioQuantumList.ordered_by: a new list of the same kind, container None.
ordered_by(lst, keyOf, descending) ==
  [dict |-> NewListDict(lst.dict.kind), items |-> sorted(lst.items, keyOf, descending)]

\* AudioQuantumList(): the kind of a list made without one is None.
NoKind == "None"
\* None as an element of a list of quanta.
NoneItem == <<NoneRef, NoneRef>>

\* chain_from_mixed: the elements of each output that can be iterated, and
\* the output itself when it cannot (a quantum, None).
chainSkippingRepeats(iterables) ==
  LET F[i \in 0..Len(iterables)] ==
        IF i = 0 THEN << >>
        ELSE F[i - 1] \o
             (IF iterables[i].t = "list"
              THEN SelectSeq(iterables[i].list.items, LAMBDA e : e \notin Range(F[i - 1]))
              ELSE IF iterables[i].t = "quantum" THEN <<iterables[i].id>>
              ELSE <<NoneItem>>)
  IN F[Len(iterables)]
chain_from_mixed(iterables) ==
  LET F[i \in 0..Len(iterables)] ==
        IF i = 0 THEN << >>
        ELSE F[i - 1] \o
             (IF iterables[i].t = "list" THEN iterables[i].list.items
              ELSE IF iterables[i].t = "quantum" THEN <<iterables[i].id>>
              ELSE <<NoneItem>>)
  IN F[Len(iterables)]

\* The arguments of beget.  source is a list ([t |-> "list", list]) or a
\* function, given by its output for each member of self ([t |-> "function",
\* out]); which is absent, or for a list source a filter per member of self
\* (keep[x][y]: which(x) holds of y), or for a function source a filter of
\* the outputs (keep[e]).
NoWhich == [t |-> "absent"]

\* AudioQuantumList.beget
begetCheckingInLoop(lst, source, which) ==
  IF source.t = "list"
  THEN IF which.t = "absent" /\ lst.items # << >> THEN Raised("TypeError")
       ELSE ListRes([dict |-> NewListDict(NoKind),
                     items |-> chain_from_mixed(
                       [i \in DOMAIN lst.items |->
                          ListRes(That(source.list, which.keep[lst.items[i]]))])])
  ELSE LET out == [dict |-> NewListDict(NoKind),
                   items |-> chain_from_mixed([i \in DOMAIN lst.items |->
                                                 source.out[lst.items[i]]])]
       IN ListRes(IF which.t = "absent" THEN out ELSE That(out, which.keep))
beget(lst, source, which) ==
  IF source.t = "list"
  THEN IF which.t = "absent" THEN Raised("TypeError")
       ELSE ListRes([dict |-> NewListDict(NoKind),
                     items |-> chain_from_mixed(
                       [i \in DOMAIN lst.items |->
                          ListRes(That(source.list, which.keep[lst.items[i]]))])])
  ELSE LET out == [dict |-> NewListDict(NoKind),
                   items |-> chain_from_mixed([i \in DOMAIN lst.items |->
                                                 source.out[lst.items[i]]])]
       IN ListRes(IF which.t = "absent" THEN out ELSE That(out, which.keep))

\* ------------------------------------------------------------------------
\* The record and its callers
\* ------------------------------------------------------------------------
VARIABLES
  heap,        \* the objects
  ctor,        \* "new" before AudioAnalysis(audio, parsers), then "done" or "TypeError"
  audio,       \* the constructor's argument
  serialized,  \* whether the callers serialize their reads of the record
  pc,          \* where each caller is in __getattribute__
  cur,         \* the name each caller is reading
  val,         \* each caller's local `value`
  ret,         \* what each caller's last read returned
  nfetch,      \* per name: values fetched since the constructor or a refresh reset it
  collab,      \* calls made to echonest.web.analyze: uploads and getters (failed ones too)
  nreads,      \* reads and refreshes begun
  ops,         \* operations begun
  unstored,    \* per name: callers that found it None and have not stored a value since
  pickled,     \* the last pickled form of the record, with what the record then held
  origin,      \* per restored record, what the pickled record held
  failed       \* the last read or refresh that raised: the name it raised at, which
               \* read or refresh it was, and for a refresh what the getters returned

VARIABLES
  audioData,   \* getpieces' first argument
  segs,        \* getpieces' second argument
  newAD,       \* what getpieces returned, or that it has not been called
  acc,         \* an AudioData that is appended to
  accRaised,   \* whether the last append to acc raised
  bufOp,       \* the last call on buffers: its name and arguments
  bufRes       \* what it returned

bufVars == << audioData, segs, newAD, acc, accRaised, bufOp, bufRes >>

VARIABLES
  navOp,    \* the last call on a quantum or on a list: its name and arguments
  navRes    \* what it returned

navVars == << navOp, navRes >>

recVars == << heap, ctor, audio, serialized, pc, cur, val, ret, nfetch, collab,
              nreads, ops, unstored, pickled, origin, failed >>

recRest == << ctor, audio, serialized, pc, cur, val, ret, nfetch, collab, nreads, ops,
              unstored, pickled, origin, failed >>

\* The two callers of the record.
Callers == {1, 2}

\* The record the callers use.
Rec == 1

\* The parsers arguments tried: PARSERS, none, and PARSERS with a parser for
\* key that returns None.
ParsersArgs ==
  { PARSERS, [n \in {} |-> "absent"], [PARSERS EXCEPT !["key"] = "returnsNone"] }

\* What the getters may return.
StartNodes(starts) == [i \in DOMAIN starts |-> [start |-> starts[i]]]
RecDocs(name) ==
  CASE name = "bars" -> {[name |-> name, nodes |-> StartNodes(<<0, 4>>)],
                         [name |-> name, nodes |-> << >>]}
    [] name \in {"beats", "tatums"} -> {[name |-> name, nodes |-> StartNodes(<<0, 2, 4>>)]}
    [] name \in {"sections", "segments"} ->
         {[name |-> name, nodes |-> <<[start |-> 0, duration |-> 8]>>]}
    [] OTHER -> {[name |-> name, data |-> 1]}

RefreshDocs ==
  {[n \in CachedNames |-> IF n = "bars" THEN b ELSE CHOOSE d \in RecDocs(n) : TRUE] :
     b \in RecDocs("bars")}

\* What a getter answers to a read: a document, or a failure of the getter or
\* of the parser.
FetchDocs(name) == RecDocs(name) \cup {FailDoc(name, "getter"), FailDoc(name, "parser")}

\* Refreshes in which the first, a middle or the last cached variable fails.
FailingRefreshDocs ==
  {[d EXCEPT ![n] = FailDoc(n, what)] :
     d \in RefreshDocs, n \in {"bars", "key", "time_signature"}, what \in {"getter", "parser"}}

\* The names the callers read.
ReadNames == {"bars", "key"}

Quiescent == \A t \in Callers : pc[t] = "idle"

\* What a record holds, as data: per cached variable its value, a list being
\* its kind and its members' start, duration and kind in order.
Content(h, r) ==
  [n \in CachedNames |->
     LET v == Field(h, r, n)
     IN IF IsListRef(v)
        THEN [t |-> "list", kind |-> h.lists[v.id].dict.kind,
              members |-> [i \in DOMAIN h.lists[v.id].items |->
                             LET q == h.quanta[h.lists[v.id].items[i]]
                             IN [start |-> q.start, duration |-> q.duration, kind |-> q.kind]]]
        ELSE v]

Init ==
  /\ heap = EmptyHeap
  /\ ctor = "new"
  /\ audio = [str |-> FALSE, isfile |-> FALSE, dot |-> FALSE]
  /\ serialized \in BOOLEAN
  /\ pc = [t \in Callers |-> "idle"]
  /\ cur = [t \in Callers |-> "bars"]
  /\ val = [t \in Callers |-> None]
  /\ ret = [t \in Callers |-> None]
  /\ nfetch = [n \in CachedNames |-> 0]
  /\ collab = [uploads |-> 0, fetches |-> 0]
  /\ nreads = 0
  /\ ops = 0
  /\ unstored = [n \in CachedNames |-> {}]
  /\ pickled = [t |-> "none"]
  /\ origin = << >>
  /\ failed = [t |-> "none"]

\* AudioAnalysis.__init__(audio, parsers)
Construct(a, p) ==
  /\ ctor = "new"
  /\ audio' = a
  /\ IF RaisesTypeError(a)
     THEN /\ ctor' = "TypeError"
          /\ UNCHANGED << heap, collab >>
     ELSE /\ ctor' = "done"
          /\ IF NeedsUpload(a)
             THEN /\ collab' = [collab EXCEPT !.uploads = @ + 1]
                  /\ heap' = NewRecord(heap, "thingID", p)
             ELSE /\ collab' = collab
                  /\ heap' = NewRecord(heap, "audio", p)
  /\ UNCHANGED << serialized, pc, cur, val, ret, nfetch, nreads, ops, unstored,
                  pickled, origin >>
  /\ UNCHANGED failed
  /\ UNCHANGED << bufVars, navVars >>

\* A caller reads a cached variable: __getattribute__(name) up to the test
\* of the stored value.
Check(t, name) ==
  /\ ctor = "done"
  /\ pc[t] = "idle"
  /\ ops < MaxOps
  /\ serialized => Quiescent
  /\ ops' = ops + 1
  /\ nreads' = nreads + 1
  /\ cur' = [cur EXCEPT ![t] = name]
  /\ IF IsUnpopulated(heap, Rec, name)
     THEN /\ pc' = [pc EXCEPT ![t] = "fetch"]
          /\ unstored' = [unstored EXCEPT ![name] = @ \cup {t}]
     ELSE /\ pc' = [pc EXCEPT ![t] = "return"]
          /\ unstored' = unstored
  /\ UNCHANGED << heap, ctor, audio, serialized, val, ret, nfetch, collab, pickled, origin >>
  /\ UNCHANGED failed
  /\ UNCHANGED << bufVars, navVars >>

\* value = getter(id), then the parser.
Fetch(t, doc) ==
  /\ pc[t] = "fetch"
  /\ collab' = [collab EXCEPT !.fetches = @ + 1]
  /\ IF FetchRaises(heap, Rec, cur[t], doc)
     THEN /\ ret' = [ret EXCEPT ![t] = Raised(doc.error)]
          /\ pc' = [pc EXCEPT ![t] = "idle"]
          /\ unstored' = [unstored EXCEPT ![cur[t]] = @ \ {t}]
          /\ failed' = [t |-> "get", name |-> cur[t], at |-> nreads]
          /\ UNCHANGED << heap, val, nfetch >>
     ELSE /\ LET f == FetchValue(heap, Rec, cur[t], doc)
             IN /\ heap' = f.heap
                /\ val' = [val EXCEPT ![t] = f.value]
          /\ nfetch' = [nfetch EXCEPT ![cur[t]] = @ + 1]
          /\ pc' = [pc EXCEPT ![t] = "store"]
          /\ UNCHANGED << ret, unstored, failed >>
  /\ UNCHANGED << ctor, audio, serialized, cur, nreads, ops, pickled, origin >>
  /\ UNCHANGED << bufVars, navVars >>

\* self.__setattr__(name, value)
Store(t) ==
  /\ pc[t] = "store"
  /\ heap' = SetAttr(heap, Rec, cur[t], val[t])
  /\ unstored' = [unstored EXCEPT ![cur[t]] =
                    IF Field(heap', Rec, cur[t]) = val[t] THEN @ \ {t} ELSE @]
  /\ pc' = [pc EXCEPT ![t] = "attach"]
  /\ UNCHANGED << ctor, audio, serialized, cur, val, ret, nfetch, collab, nreads, ops,
                  pickled, origin >>
  /\ UNCHANGED failed
  /\ UNCHANGED << bufVars, navVars >>

\* the type test on the stored value, and attach
AttachStep(t) ==
  /\ pc[t] = "attach"
  /\ heap' = AttachIfList(heap, Rec, cur[t])
  /\ pc' = [pc EXCEPT ![t] = "return"]
  /\ UNCHANGED << ctor, audio, serialized, cur, val, ret, nfetch, collab, nreads, ops,
                  unstored, pickled, origin >>
  /\ UNCHANGED failed
  /\ UNCHANGED << bufVars, navVars >>

\* return object.__getattribute__(self, name)
Return(t) ==
  /\ pc[t] = "return"
  /\ ret' = [ret EXCEPT ![t] = Field(heap, Rec, cur[t])]
  /\ val' = [val EXCEPT ![t] = None]
  /\ pc' = [pc EXCEPT ![t] = "idle"]
  /\ UNCHANGED << heap, ctor, audio, serialized, cur, nfetch, collab, nreads, ops,
                  unstored, pickled, origin >>
  /\ UNCHANGED failed
  /\ UNCHANGED << bufVars, navVars >>

\* refreshCachedVariables(), called while no read is in progress.
Refresh(docs) ==
  /\ ctor = "done"
  /\ Quiescent
  /\ ops < MaxOps
  /\ ops' = ops + 1
  /\ nreads' = nreads + 1
  /\ heap' = refreshCachedVariables(heap, Rec, docs)
  /\ LET k == FirstFailing(heap, Rec, docs)
     IN IF k = 0
        THEN /\ nfetch' = [n \in CachedNames |-> 1]
             /\ collab' = [collab EXCEPT !.fetches = @ + Len(CACHED_VARIABLES)]
             /\ failed' = failed
        ELSE /\ nfetch' = [n \in CachedNames |->
                             IF \E i \in 1..(k - 1) : CACHED_VARIABLES[i] = n THEN 1
                             ELSE IF n = CACHED_VARIABLES[k] THEN 0 ELSE nfetch[n]]
             /\ collab' = [collab EXCEPT !.fetches = @ + k]
             /\ failed' = [t |-> "refresh", name |-> CACHED_VARIABLES[k], at |-> nreads',
                           docs |-> docs]
  /\ UNCHANGED << ctor, audio, serialized, pc, cur, val, ret, unstored, pickled, origin >>
  /\ UNCHANGED << bufVars, navVars >>

\* pickle.dumps(record), called while no read is in progress.
PickleOp ==
  /\ ctor = "done"
  /\ Quiescent
  /\ ops < MaxOps
  /\ ops' = ops + 1
  /\ pickled' = IF PickleRaises(heap, Rec) THEN [t |-> "KeyError"]
                ELSE [t |-> "state", state |-> Pickle(heap, Rec),
                      content |-> Content(heap, Rec)]
  /\ UNCHANGED << heap, ctor, audio, serialized, pc, cur, val, ret, nfetch, collab,
                  nreads, unstored, origin >>
  /\ UNCHANGED failed
  /\ UNCHANGED << bufVars, navVars >>

\* pickle.loads(...): a new record, __setstate__ run on it.
RestoreOp ==
  /\ pickled.t = "state"
  /\ Len(origin) < MaxRestores
  /\ heap' = SetState(heap, pickled.state)
  /\ origin' = Append(origin, pickled.content)
  /\ UNCHANGED << ctor, audio, serialized, pc, cur, val, ret, nfetch, collab, nreads,
                  ops, unstored, pickled >>
  /\ UNCHANGED failed
  /\ UNCHANGED << bufVars, navVars >>

RecNext ==
  \/ \E a \in AudioArgs, p \in ParsersArgs : Construct(a, p)
  \/ \E t \in Callers, name \in ReadNames : Check(t, name)
  \/ \E t \in Callers : \E doc \in RecDocs(cur[t]) : Fetch(t, doc)
  \/ \E t \in Callers : Store(t)
  \/ \E t \in Callers : AttachStep(t)
  \/ \E t \in Callers : Return(t)
  \/ \E docs \in RefreshDocs : Refresh(docs)
  \/ PickleOp
  \/ RestoreOp

\* ------------------------------------------------------------------------
\* The buffers
\* ------------------------------------------------------------------------
\* A buffer whose row i holds i + 1.
Ramp(shape) == [shape |-> shape, head |-> [i \in 1..shape[1] |-> i]]

\* The intervals tried, in 1/TimeDen seconds: starts and durations on and off
\* the sample grid, within and past the end of the source.
SegStarts == {0, 1, 5, 10, 15}
SegDurations == {0, 1, 3, 4, 6}
Intervals == [start : SegStarts, duration : SegDurations]

RECURSIVE SeqsUpTo(_, _)
SeqsUpTo(S, n) ==
  IF n = 0 THEN {<< >>}
  ELSE LET shorter == SeqsUpTo(S, n - 1)
       IN shorter \cup {Append(s, x) : s \in {y \in shorter : Len(y) = n - 1}, x \in S}

BufIdle ==
  /\ audioData = AudioDataFromArray(Ramp(<<SrcRows>>), SampleRate)
  /\ segs = << >>
  /\ newAD = [t |-> "none"]
  /\ acc = AudioDataFromShape(<<AccRows>>, SampleRate, 1)
  /\ accRaised = FALSE
  /\ bufOp = [name |-> "none"]
  /\ bufRes = [t |-> "none"]

\* newAD = getpieces(audioData, segs)
GetPieces ==
  /\ newAD.t = "none"
  /\ LET r == getpieces(audioData, segs)
     IN newAD' = IF r.raised THEN [t |-> "ValueError"] ELSE [t |-> "ad", ad |-> r.ad]
  /\ UNCHANGED << audioData, segs, acc, accRaised, bufOp, bufRes >>
  /\ UNCHANGED << recVars, navVars >>

\* acc.append(audioData[a:a+k])
AppendOp(a, k) ==
  /\ acc.endindex <= AccRows
  /\ LET other == AudioDataFromArray(ArraySlice(audioData.data, a, a + k), SampleRate)
         r == AppendAD(acc, other)
     IN /\ acc' = r.ad
        /\ accRaised' = r.raised
  /\ UNCHANGED << audioData, segs, newAD, bufOp, bufRes >>
  /\ UNCHANGED << recVars, navVars >>

\* The buffers handed to + and mix: none (AudioData()); buffers made from an
\* array of one or three rows without channels, or of two or three rows of
\* two channels; and buffers of AccRows allocated rows of which the first one
\* or two were appended; each at one of two sample rates.
Rates == {SampleRate, 2 * SampleRate}
Filled(k, rate) ==
  AppendAD(AudioDataFromShape(<<AccRows>>, rate, 1),
           AudioDataFromArray(Ramp(<<k>>), rate)).ad
BufOperands ==
  {EmptyAudioData}
  \cup {AudioDataFromArray(Ramp(shape), rate) :
          shape \in {<<1>>, <<3>>, <<2, 2>>, <<3, 2>>}, rate \in Rates}
  \cup {Filled(k, rate) : k \in 1..2, rate \in Rates}

\* The ratios handed to mix.
Ratios == {[num |-> 0, den |-> 1], [num |-> 1, den |-> 2], [num |-> 1, den |-> 1]}

\* a + b
CallAdd(a, b) ==
  /\ bufOp.name = "none"
  /\ bufRes' = Add(a, b)
  /\ bufOp' = [name |-> "add", a |-> a, b |-> b]
  /\ UNCHANGED << audioData, segs, newAD, acc, accRaised >>
  /\ UNCHANGED << recVars, navVars >>

\* mix(a, b, ratio)
CallMix(a, b, ratio) ==
  /\ bufOp.name = "none"
  /\ bufRes' = mix(a, b, ratio)
  /\ bufOp' = [name |-> "mix", a |-> a, b |-> b, ratio |-> ratio]
  /\ UNCHANGED << audioData, segs, newAD, acc, accRaised >>
  /\ UNCHANGED << recVars, navVars >>

\* audioData[q], q with start and duration
CallGetItem(q) ==
  /\ bufOp.name = "none"
  /\ bufRes' = AudioRes(GetItem(audioData, q))
  /\ bufOp' = [name |-> "getitem", q |-> q, source |-> audioData]
  /\ UNCHANGED << audioData, segs, newAD, acc, accRaised >>
  /\ UNCHANGED << recVars, navVars >>

\* s.data[i] = v on the buffer s that audioData[q] returned: s has an array
\* of its own (AudioData.__init__ copies the rows into new zeros).
WriteSlice(i, v) ==
  /\ bufOp.name = "getitem"
  /\ i < Rows(bufRes.ad.data)
  /\ bufRes' = [bufRes EXCEPT !.ad.data = ArrayAssign(@, i, i + 1, [shape |-> <<1>>, head |-> <<v>>])]
  /\ bufOp' = [bufOp EXCEPT !.name = "written"]
  /\ UNCHANGED << audioData, segs, newAD, acc, accRaised >>
  /\ UNCHANGED << recVars, navVars >>

\* ------------------------------------------------------------------------
\* Calls on the quanta of a record
\* ------------------------------------------------------------------------
NavIdle ==
  /\ navOp = [name |-> "none"]
  /\ navRes = [t |-> "none"]

\* Nondecreasing start times, as the analysis lists them.
Sorted(s) == \A i \in 1..(Len(s) - 1) : s[i] <= s[i + 1]
StartLists(n) == {s \in SeqsUpTo(0..MaxTime, n) : Sorted(s)}

\* A record made from an ID with PARSERS, its bars and beats read.
AnalysisWith(barStarts, beatStarts) ==
  LET h0 == NewRecord(EmptyHeap, "audio", PARSERS)
      h1 == GetAttribute(h0, Rec, "bars",
                         [name |-> "bars", nodes |-> StartNodes(barStarts)]).heap
  IN GetAttribute(h1, Rec, "beats",
                  [name |-> "beats", nodes |-> StartNodes(beatStarts)]).heap

HeldQuanta(h, r) ==
  UNION {Range(h.lists[Field(h, r, n).id].items) : n \in {m \in CachedNames : IsListRef(Field(h, r, m))}}

\* q.parent()
CallParent(qid, doc) ==
  /\ navOp.name = "none"
  /\ LET r == parent(heap, qid, doc)
     IN /\ heap' = r.heap
        /\ navRes' = r.value
  /\ navOp' = [name |-> "parent", q |-> qid, step |-> 0]
  /\ UNCHANGED << recRest, bufVars >>

\* q.children()
CallChildren(qid, doc) ==
  /\ navOp.name = "none"
  /\ LET r == children(heap, qid, doc)
     IN /\ heap' = r.heap
        /\ navRes' = r.value
  /\ navOp' = [name |-> "children", q |-> qid, step |-> 0]
  /\ UNCHANGED << recRest, bufVars >>

\* q.prev(step)
CallPrev(qid, step) ==
  /\ navOp.name = "none"
  /\ navRes' = prev(heap, qid, step)
  /\ navOp' = [name |-> "prev", q |-> qid, step |-> step]
  /\ heap' = heap
  /\ UNCHANGED << recRest, bufVars >>

\* q.next(step)
CallNext(qid, step) ==
  /\ navOp.name = "none"
  /\ navRes' = next(heap, qid, step)
  /\ navOp' = [name |-> "next", q |-> qid, step |-> step]
  /\ heap' = heap
  /\ UNCHANGED << recRest, bufVars >>

\* What the getters return when a call on a quantum makes the record fetch a
\* collection: one section over the whole track, or no section.
NavDocs ==
  {[n \in {"sections", "bars", "beats", "tatums"} |->
      IF n = "sections" THEN [name |-> n, nodes |-> s]
      ELSE CHOOSE d \in RecDocs(n) : TRUE] :
     s \in {<<[start |-> 0, duration |-> 8]>>, << >>}}

\* q.local_context()
CallLocalContext(qid, docs) ==
  /\ navOp.name = "none"
  /\ LET r == local_context(heap, qid, docs)
     IN /\ heap' = r.heap
        /\ navRes' = r.value
  /\ navOp' = [name |-> "local_context", q |-> qid, step |-> 0]
  /\ UNCHANGED << recRest, bufVars >>

\* ------------------------------------------------------------------------
\* Calls on the lists of a record
\* ------------------------------------------------------------------------
HeldLists(h, r) == {Field(h, r, n).id : n \in {m \in CachedNames : IsListRef(Field(h, r, m))}}

\* The filters callers pass to that(): every member, none, the members that
\* last at least 2, the members that start before 2.
Filters == {"all", "none", "long", "early"}
FilterHolds(f, q) ==
  CASE f = "all" -> TRUE
    [] f = "none" -> FALSE
    [] f = "long" -> q.duration >= 2
    [] f = "early" -> q.start < 2

\* The key functions callers pass to ordered_by().
Keys == {"start", "duration", "end", "same"}
KeyValue(k, q) ==
  CASE k = "start" -> q.start
    [] k = "duration" -> q.duration
    [] k = "end" -> End(q)
    [] k = "same" -> 0

\* The filter factories callers pass to beget() as which.
Whiches == {"overlap", "same_start", "not_before"}
WhichHolds(w, x, y) ==
  CASE w = "overlap" -> overlap(x, y)
    [] w = "same_start" -> y.start = x.start
    [] w = "not_before" -> y.start >= x.start

\* The functions callers pass to beget() as source: nothing for any member,
\* the member, the member in a list, the member twice in a list, nothing for
\* the members that start at 0 and the member in a list for the others.
Sources == {"nothing", "itself", "singleton", "twice", "mixed"}
PlainList(items) == ListRes([dict |-> NewListDict(NoKind), items |-> items])
SourceOutput(f, h, qid) ==
  CASE f = "nothing" -> PyNone
    [] f = "itself" -> QuantumRes(qid)
    [] f = "singleton" -> PlainList(<<qid>>)
    [] f = "twice" -> PlainList(<<qid, qid>>)
    [] f = "mixed" -> IF h.quanta[qid].start = 0 THEN PyNone ELSE PlainList(<<qid>>)

\* c.that(filt)
CallThat(lid, f) ==
  /\ navOp.name = "none"
  /\ navRes' = ListRes(That(heap.lists[lid],
                            [x \in Range(heap.lists[lid].items) |->
                               FilterHolds(f, heap.quanta[x])]))
  /\ navOp' = [name |-> "that", list |-> lid, filt |-> f, before |-> heap]
  /\ heap' = heap
  /\ UNCHANGED << recRest, bufVars >>

\* c.ordered_by(key), then c.ordered_by(key, descending=True)
CallOrderedBy(lid, k) ==
  /\ navOp.name = "none"
  /\ LET keyOf == [x \in Range(heap.lists[lid].items) |-> KeyValue(k, heap.quanta[x])]
     IN navRes' = [t |-> "orders",
                   ascending |-> ordered_by(heap.lists[lid], keyOf, FALSE),
                   descending |-> ordered_by(heap.lists[lid], keyOf, TRUE)]
  /\ navOp' = [name |-> "ordered_by", list |-> lid, key |-> k]
  /\ heap' = heap
  /\ UNCHANGED << recRest, bufVars >>

\* c.beget(source, which) and c.beget(source), source a list
CallBegetList(lid, src, w) ==
  /\ navOp.name = "none"
  /\ LET lst == heap.lists[lid]
         which == IF w = "absent" THEN NoWhich
                  ELSE [t |-> "which",
                        keep |-> [x \in Range(lst.items) |->
                                    [y \in Range(heap.lists[src].items) |->
                                       WhichHolds(w, heap.quanta[x], heap.quanta[y])]]]
     IN navRes' = beget(lst, ListRes(heap.lists[src]), which)
  /\ navOp' = [name |-> "beget_list", list |-> lid, source |-> src, which |-> w, before |-> heap]
  /\ heap' = heap
  /\ UNCHANGED << recRest, bufVars >>

\* c.beget(f) and c.beget(f, which), f a function
CallBegetFunction(lid, f, w) ==
  /\ navOp.name = "none"
  /\ LET lst == heap.lists[lid]
         out == [x \in Range(lst.items) |-> SourceOutput(f, heap, x)]
         which == IF w = "absent" THEN NoWhich
                  ELSE [t |-> "which",
                        keep |-> [e \in Range(lst.items) \cup {NoneItem} |->
                                    e # NoneItem /\ FilterHolds(w, heap.quanta[e])]]
     IN navRes' = beget(lst, [t |-> "function", out |-> out], which)
  /\ navOp' = [name |-> "beget_function", list |-> lid, source |-> f, which |-> w, before |-> heap]
  /\ heap' = heap
  /\ UNCHANGED << recRest, bufVars >>

\* ------------------------------------------------------------------------
\* Specifications
\* ------------------------------------------------------------------------
vars == << recVars, bufVars, navVars >>

\* The record and its callers.
RecInit == Init /\ BufIdle /\ NavIdle

Next == RecNext

Spec == RecInit /\ [][Next]_vars

\* The record as it is before any call, for the specifications below.
RecIdle ==
  /\ ctor = "done"
  /\ audio = [str |-> TRUE, isfile |-> FALSE, dot |-> FALSE]
  /\ serialized = TRUE
  /\ pc = [t \in Callers |-> "idle"]
  /\ cur = [t \in Callers |-> "bars"]
  /\ val = [t \in Callers |-> None]
  /\ ret = [t \in Callers |-> None]
  /\ nfetch = [n \in CachedNames |-> 0]
  /\ collab = [uploads |-> 0, fetches |-> 0]
  /\ nreads = 0
  /\ ops = 0
  /\ unstored = [n \in CachedNames |-> {}]
  /\ pickled = [t |-> "none"]
  /\ origin = << >>
  /\ failed = [t |-> "none"]

\* Reads and refreshes of a record made from an ID, by callers that serialize
\* them, with getters and parsers that may fail.
FailInit ==
  /\ RecIdle /\ BufIdle /\ NavIdle
  /\ \E p \in ParsersArgs : heap = NewRecord(EmptyHeap, "audio", p)

FailNext ==
  \/ \E t \in Callers, name \in ReadNames : Check(t, name)
  \/ \E t \in Callers : \E doc \in FetchDocs(cur[t]) : Fetch(t, doc)
  \/ \E t \in Callers : Store(t)
  \/ \E t \in Callers : AttachStep(t)
  \/ \E t \in Callers : Return(t)
  \/ \E docs \in RefreshDocs \cup FailingRefreshDocs : Refresh(docs)

SpecFail == FailInit /\ [][FailNext]_vars

\* getpieces on a source buffer and a list of intervals.
PiecesInit ==
  /\ RecIdle /\ heap = EmptyHeap /\ NavIdle
  /\ \E shape \in {<<SrcRows>>, <<SrcRows, 2>>} :
        audioData = AudioDataFromArray(Ramp(shape), SampleRate)
  /\ segs \in SeqsUpTo(Intervals, MaxSegs)
  /\ newAD = [t |-> "none"]
  /\ acc = AudioDataFromShape(<<AccRows>>, SampleRate, 1)
  /\ accRaised = FALSE
  /\ bufOp = [name |-> "none"]
  /\ bufRes = [t |-> "none"]

PiecesNext == GetPieces

SpecPieces == PiecesInit /\ [][PiecesNext]_vars

\* Appends to a buffer of AccRows rows.
AppendInit == RecIdle /\ heap = EmptyHeap /\ NavIdle /\ BufIdle

AppendNext == \E a \in 0..(SrcRows - 1), k \in 0..MaxOther : AppendOp(a, k)

SpecAppend == AppendInit /\ [][AppendNext]_vars

\* +, mix and indexing by an interval.
BuffersInit == AppendInit

BuffersNext ==
  \/ \E a \in BufOperands, b \in BufOperands : CallAdd(a, b)
  \/ \E a \in BufOperands, b \in BufOperands, ratio \in Ratios : CallMix(a, b, ratio)
  \/ \E q \in Intervals : CallGetItem(q)
  \/ \E i \in 0..(SrcRows - 1) : WriteSlice(i, 0)

SpecBuffers == BuffersInit /\ [][BuffersNext]_vars

\* Navigation from the quanta of a record whose bars and beats were read.
NavInit ==
  /\ RecIdle /\ BufIdle /\ NavIdle
  /\ \E bs \in StartLists(MaxBars), ts \in StartLists(MaxBeats) :
        heap = AnalysisWith(bs, ts)

NavNext ==
  \/ \E qid \in HeldQuanta(heap, Rec) :
           \E doc \in RecDocs(IF heap.quanta[qid].kind = "bar" THEN "sections" ELSE "bars") :
              CallParent(qid, doc)
  \/ \E qid \in HeldQuanta(heap, Rec) :
        \E doc \in RecDocs(IF heap.quanta[qid].kind = "bar" THEN "beats" ELSE "tatums") :
           CallChildren(qid, doc)
  \/ \E qid \in HeldQuanta(heap, Rec), step \in 1..MaxStep : CallPrev(qid, step)
  \/ \E qid \in HeldQuanta(heap, Rec), step \in 1..MaxStep : CallNext(qid, step)
  \/ \E qid \in HeldQuanta(heap, Rec), docs \in NavDocs : CallLocalContext(qid, docs)

SpecNav == NavInit /\ [][NavNext]_vars

\* that, ordered_by and beget on the lists of a record whose bars and beats
\* were read.
AlgebraInit == NavInit

AlgebraNext ==
  \/ \E lid \in HeldLists(heap, Rec), f \in Filters : CallThat(lid, f)
  \/ \E lid \in HeldLists(heap, Rec), k \in Keys : CallOrderedBy(lid, k)
  \/ \E lid \in HeldLists(heap, Rec), src \in HeldLists(heap, Rec) :
        \E w \in Whiches \cup {"absent"} : CallBegetList(lid, src, w)
  \/ \E lid \in HeldLists(heap, Rec), f \in Sources :
        \E w \in Filters \cup {"absent"} : CallBegetFunction(lid, f, w)

SpecAlgebra == AlgebraInit /\ [][AlgebraNext]_vars

\* ------------------------------------------------------------------------
\* Claims about the record
\* ------------------------------------------------------------------------
\* A list held by record r is attached: its container is r and the container
\* of each of its members is the list.
ListAttached(h, lid, r) ==
  /\ HasKey(h.lists[lid].dict, "container")
  /\ h.lists[lid].dict.container = r
  /\ \A qid \in Range(h.lists[lid].items) :
        /\ HasKey(h.quanta[qid], "container")
        /\ h.quanta[qid].container = lid

RecordAttached(h, r) ==
  \A n \in CachedNames :
     IsListRef(Field(h, r, n)) => ListAttached(h, Field(h, r, n).id, r)

\* C1: with serialized reads and no refresh in between, the getter of a name
\* is called at most once, whatever value the getter and the parser produced.
C1_FetchedAtMostOnce ==
  serialized => \A n \in CachedNames : nfetch[n] <= 1

\* C2: between calls (no read in progress), every cached variable that holds
\* a list is attached: the list's container is the record and the container
\* of every member is the list.
C2_HeldListsAttached ==
  (ctor = "done" /\ Quiescent) => RecordAttached(heap, Rec)

C2_Witness ==
  /\ ctor = "done" /\ Quiescent
  /\ IsListRef(Field(heap, Rec, "bars"))
  /\ Len(heap.lists[Field(heap, Rec, "bars").id].items) = 2
  /\ IsListRef(Field(heap, Rec, "sections"))
  /\ Len(heap.lists) > 5

\* C3: the pickled form of every list and of every quantum has no container,
\* and every restored record holds what the pickled record held (the same
\* variables populated, the lists with the same members in the same order),
\* each of its lists attached to the restored record.
PickledHasNoContainer(st) ==
  \A n \in CachedNames :
     st.fields[n].t = "list" =>
        /\ ~HasKey(st.fields[n].dict, "container")
        /\ \A i \in DOMAIN st.fields[n].items : ~HasKey(st.fields[n].items[i], "container")

C3_RestoreReattaches ==
  /\ pickled.t # "KeyError"
  /\ pickled.t = "state" => PickledHasNoContainer(pickled.state)
  /\ \A k \in DOMAIN origin :
        /\ Content(heap, Rec + k) = origin[k]
        /\ RecordAttached(heap, Rec + k)
        /\ \A n \in CachedNames :
              IsListRef(Field(heap, Rec + k, n)) =>
                 Field(heap, Rec + k, n) # Field(heap, Rec, n)

C3_Witness ==
  /\ Len(origin) = 1
  /\ IsListRef(Field(heap, Rec + 1, "bars"))
  /\ Len(heap.lists[Field(heap, Rec + 1, "bars").id].items) = 2
  /\ IsListRef(Field(heap, Rec + 1, "beats"))
  /\ Field(heap, Rec + 1, "key").t = "val"

\* C4: constructing from an identifier (a string that is neither a file nor
\* contains a '.') calls neither upload nor a getter and leaves all fourteen
\* cached variables None; getters are called only once a read has begun.
IsIdentifier(a) == a.str /\ ~a.isfile /\ ~a.dot

C4_ConstructFromIdIsLazy ==
  (ctor = "done" /\ IsIdentifier(audio)) =>
     /\ collab.uploads = 0
     /\ Len(CACHED_VARIABLES) = 14
     /\ Cardinality(DOMAIN heap.recs[Rec].fields) = 14
     /\ nreads = 0 => /\ collab.fetches = 0
                      /\ \A n \in CachedNames : Field(heap, Rec, n) = None

C4_Witness ==
  /\ ctor = "done" /\ IsIdentifier(audio)
  /\ nreads = 1 /\ collab.fetches = 1 /\ collab.uploads = 0

\* C5: when the callers serialize their reads, no two callers have both found
\* the same variable None before either stored a value; without that, two
\* callers do, and the getter runs twice with no refresh in between.
C5_NoRaceWhenSerialized ==
  serialized => \A n \in CachedNames : Cardinality(unstored[n]) <= 1

C5_Witness ==
  /\ ~serialized
  /\ \E n \in ReadNames :
        /\ Cardinality(unstored[n]) = 2
        /\ nfetch[n] = 2
        /\ \A t \in Callers : pc[t] = "store" /\ cur[t] = n /\ val[t] # None


\* A read that raised: the caller gets the exception, the record is as it
\* was and the variable is None.
ReadRaised(t) ==
  (pc[t] = "fetch" /\ pc'[t] = "idle") =>
     /\ ret'[t].t = "raised"
     /\ heap' = heap
     /\ Field(heap', Rec, cur[t]) = None

\* A read that begins calls the getter exactly when the variable is None.
ReadBegins(t) ==
  (pc[t] = "idle" /\ pc'[t] # "idle") =>
     ((pc'[t] = "fetch") <=> (Field(heap, Rec, cur'[t]) = None))

\* What a refresh stores for a name: the content of the record after a first
\* read of the name answered by the same document.
Refreshed(h, name, docs) ==
  Content(GetAttribute(NewRecord(EmptyHeap, "audio", h.recs[Rec].parsers), Rec, name,
                       docs[name]).heap, Rec)[name]

\* A refresh that raised at the k-th cached variable: the variables before it
\* hold what their getters returned (the lists are new lists), the k-th is
\* None, and the variables after it hold the very values they held.
RefreshRaised ==
  (failed'.t = "refresh" /\ nreads' # nreads /\ failed'.at = nreads') =>
     LET k == CHOOSE i \in DOMAIN CACHED_VARIABLES : CACHED_VARIABLES[i] = failed'.name
     IN /\ \A i \in 1..(k - 1) :
              LET n == CACHED_VARIABLES[i]
              IN /\ Content(heap', Rec)[n] = Refreshed(heap, n, failed'.docs)
                 /\ IsListRef(Field(heap', Rec, n)) =>
                       /\ Field(heap', Rec, n).id > Len(heap.lists)
                       /\ ListAttached(heap', Field(heap', Rec, n).id, Rec)
        /\ Field(heap', Rec, failed'.name) = None
        /\ \A i \in (k + 1)..Len(CACHED_VARIABLES) :
              LET n == CACHED_VARIABLES[i]
              IN /\ Field(heap', Rec, n) = Field(heap, Rec, n)
                 /\ Content(heap', Rec)[n] = Content(heap, Rec)[n]

\* C19: when the getter or the parser fails during a read, the caller gets
\* the failure, the variable stays None and no other variable changes, and a
\* later read of it calls the getter again; when a refresh fails at one
\* variable, those before it are refreshed and those after it hold their
\* previous values.
C19_FailureLeavesRecord ==
  [][/\ \A t \in Callers : ReadRaised(t) /\ ReadBegins(t)
     /\ RefreshRaised]_vars

\* A refresh failed at key after an earlier refresh had succeeded.
C19_Witness ==
  /\ failed.t = "refresh" /\ failed.name = "key" /\ failed.at = nreads
  /\ IsListRef(Field(heap, Rec, "bars"))
  /\ Field(heap, Rec, "key") = None
  /\ Field(heap, Rec, "time_signature") # None
  /\ collab.fetches = Len(CACHED_VARIABLES) + 5

\* ------------------------------------------------------------------------
\* Claims about getpieces and append
\* ------------------------------------------------------------------------
\* The indices of the source rows that audioData[q] holds: from
\* floor(start * rate) up to, not including, floor((start + duration) * rate),
\* as far as the source has rows.
SegRowIdx(ad, q) ==
  LET lo == (q.start * ad.sampleRate) \div TimeDen
      hi == ((q.start + q.duration) * ad.sampleRate) \div TimeDen
      n == Cardinality({j \in lo..(hi - 1) : j < ad.data.shape[1]})
  IN [i \in 1..n |-> lo + i - 1]

RECURSIVE AllRowIdx(_, _)
AllRowIdx(ad, ss) ==
  IF ss = << >> THEN << >> ELSE SegRowIdx(ad, Head(ss)) \o AllRowIdx(ad, Tail(ss))

\* C6: getpieces returns a buffer of zeros in which rows [0, endindex) are, in
\* the order of segs, the source rows of each interval, endindex is their
\* number, every later row is zero, and reading each interval back at the
\* offset where it was written gives the rows audioData[interval] holds.
C6_PiecesInOrder ==
  newAD.t # "none" =>
     /\ newAD.t = "ad"
     /\ LET r == newAD.ad
            e == AllRowIdx(audioData, segs)
        IN /\ r.endindex = Len(e)
           /\ r.endindex <= r.data.shape[1]
           /\ r.sampleRate = audioData.sampleRate
           /\ Tail(r.data.shape) = Tail(audioData.data.shape)
           /\ \A j \in 1..Len(e) : Row(r.data, j - 1) = audioData.data.head[e[j] + 1]
           /\ \A j \in (Len(e) + 1)..Len(r.data.head) : r.data.head[j] = 0
           /\ \A k \in DOMAIN segs :
                 LET off == Len(AllRowIdx(audioData, SubSeq(segs, 1, k - 1)))
                     n == Len(SegRowIdx(audioData, segs[k]))
                 IN [i \in 1..n |-> Row(r.data, off + i - 1)] =
                      [i \in 1..n |-> audioData.data.head[SegRowIdx(audioData, segs[k])[i] + 1]]

\* At 10 Hz the intervals (0.0 s, 0.3 s), (0.5 s, 0.2 s) give rows 0, 1, 2, 5, 6
\* of the source (which hold 1, 2, 3, 6, 7).
C6_Witness ==
  /\ newAD.t = "ad"
  /\ audioData.sampleRate * 2 = TimeDen
  /\ segs = << [start |-> 0, duration |-> 6], [start |-> 10, duration |-> 4] >>
  /\ newAD.ad.endindex = 5
  /\ newAD.ad.data.head = <<1, 2, 3, 6, 7>>
  /\ newAD.ad.data.shape[1] = 5 + Goodwill

\* C7: the write cursor never passes the number of allocated rows, because an
\* append that does not fit is rejected and changes nothing.
C7_CursorWithinRows == acc.endindex <= acc.data.shape[1]

\* The number of channels of a buffer's array.
Channels(ad) == IF Len(ad.data.shape) > 1 THEN ad.data.shape[2] ELSE 1
Compatible(a, b) == a.sampleRate = b.sampleRate /\ Channels(a) = Channels(b)

\* C16: mix raises whenever the two buffers differ in sample rate or in
\* number of channels; it returns no buffer for such inputs.
C16_MixRejectsIncompatible ==
  (bufOp.name = "mix" /\ ~Compatible(bufOp.a, bufOp.b)) => bufRes.t = "raised"

\* The populated rows of a buffer: rows [0, endindex).
Populated(ad) == [i \in 1..ad.endindex |-> Row(ad.data, i - 1)]

\* C17: a + b is a new buffer whose rows are the populated rows of a and then
\* the populated rows of b, its length a.endindex + b.endindex, also when the
\* storage of an operand is longer than its populated part and when an
\* operand holds nothing.
C17_AddConcatenatesPopulated ==
  (bufOp.name = "add" /\ Channels(bufOp.a) = Channels(bufOp.b)) =>
     /\ bufRes.t = "ad"
     /\ LenAD(bufRes.ad) = bufOp.a.endindex + bufOp.b.endindex
     /\ bufRes.ad.endindex = bufOp.a.endindex + bufOp.b.endindex
     /\ Populated(bufRes.ad) = Populated(bufOp.a) \o Populated(bufOp.b)

\* An interval lies within the buffer when its last sample does.
Within(q, ad) == ToSample(q.start + q.duration, ad.sampleRate) <= Rows(ad.data)

\* C18: indexing by an interval within the buffer gives a new buffer at the
\* same sample rate whose rows are the source rows [start_sample,
\* start_sample + duration_sample), start_sample = floor(start * rate) and
\* duration_sample = floor(duration * rate); writing to it leaves the source
\* as it was.
C18_SliceRows ==
  (bufOp.name \in {"getitem", "written"} /\ Within(bufOp.q, bufOp.source)) =>
     LET lo == (bufOp.q.start * bufOp.source.sampleRate) \div TimeDen
         n == (bufOp.q.duration * bufOp.source.sampleRate) \div TimeDen
     IN /\ bufRes.t = "ad"
        /\ bufRes.ad.sampleRate = bufOp.source.sampleRate
        /\ audioData = bufOp.source
        /\ LenAD(bufRes.ad) = n
        /\ bufOp.name = "getitem" =>
              Populated(bufRes.ad) = [i \in 1..n |-> Row(bufOp.source.data, lo + i - 1)]

\* ------------------------------------------------------------------------
\* Claims about the hierarchy
\* ------------------------------------------------------------------------
Bars == heap.lists[Field(heap, Rec, "bars").id].items
Beats == heap.lists[Field(heap, Rec, "beats").id].items
Q(qid) == heap.quanta[qid]
Inside(x, b) == Q(x).start >= Q(b).start /\ Q(x).start + Q(x).duration <= Q(b).start + Q(b).duration

ChildrenAreTheBeatsInside ==
  (navOp.name = "children" /\ Q(navOp.q).kind = "bar") =>
     /\ navRes.t = "list"
     /\ navRes.list.items = SelectSeq(Beats, LAMBDA x : Inside(x, navOp.q))
     /\ \A i, j \in DOMAIN navRes.list.items :
           i < j => Q(navRes.list.items[i]).start <= Q(navRes.list.items[j]).start

\* C8 as stated: children(b) is exactly the beats inside b, in ascending start
\* order, and parent(beat) is b for every beat inside b, durations of zero
\* included.
C8_Original ==
  /\ ChildrenAreTheBeatsInside
  /\ (navOp.name = "parent" /\ Q(navOp.q).kind = "beat") =>
        \A b \in Range(Bars) : Inside(navOp.q, b) => navRes = QuantumRes(b)

\* C8, amended: children(b) is exactly the beats inside b (those of duration
\* zero included), in ascending start order, and parent(beat) is b for every
\* beat of duration > 0 inside b.
C8_HierarchyConsistent ==
  /\ ChildrenAreTheBeatsInside
  /\ (navOp.name = "parent" /\ Q(navOp.q).kind = "beat" /\ Q(navOp.q).duration > 0) =>
        \A b \in Range(Bars) : Inside(navOp.q, b) => navRes = QuantumRes(b)

C8_Witness ==
  /\ navOp.name = "parent" /\ Q(navOp.q).kind = "beat" /\ Q(navOp.q).duration > 0
  /\ Len(Bars) = 2
  /\ Inside(navOp.q, Bars[2]) /\ ~Inside(navOp.q, Bars[1])
  /\ navRes = QuantumRes(Bars[2])

\* The position of the quantum of the last call in its list, from 0, and the
\* list's length.
NavLoc == navOp.q[2] - 1
NavGroup == heap.lists[navOp.q[1]].items

\* C9: past the start prev returns the first member, past the end next
\* returns the last member.
C9_Clamped ==
  /\ (navOp.name = "prev" /\ NavLoc - navOp.step < 0) => navRes = QuantumRes(NavGroup[1])
  /\ (navOp.name = "next" /\ NavLoc + navOp.step > Len(NavGroup) - 1) =>
        navRes = QuantumRes(NavGroup[Len(NavGroup)])

\* C10: next and prev do not raise and return a member of the quantum's list;
\* next of the last member and prev of the first member are the quantum.
C10_StaysInside ==
  navOp.name \in {"next", "prev"} =>
     /\ navRes.t = "quantum"
     /\ navRes.id \in Range(NavGroup)
     /\ (navOp.name = "next" /\ NavLoc = Len(NavGroup) - 1) => navRes.id = navOp.q
     /\ (navOp.name = "prev" /\ NavLoc = 0) => navRes.id = navOp.q

C10_Witness ==
  /\ navOp.name = "next" /\ navOp.step = 1
  /\ Len(NavGroup) = 3 /\ NavLoc = 2
  /\ navRes = QuantumRes(navOp.q)

\* The group of the quantum of the last call: the members of its list inside
\* the first quantum one step up that overlaps it, or its whole list when
\* none overlaps it.
UpperOf(qid) ==
  IF Q(qid).kind = "beat" THEN Bars
  ELSE IF Q(qid).kind = "bar" THEN heap.lists[Field(heap, Rec, "sections").id].items
  ELSE << >>
OverlappingUppers(qid) == SelectSeq(UpperOf(qid), LAMBDA u : overlap(Q(qid), Q(u)))
GroupOfCall ==
  IF OverlappingUppers(navOp.q) = << >> THEN NavGroup
  ELSE SelectSeq(NavGroup, LAMBDA x : Inside(x, OverlappingUppers(navOp.q)[1]))

ContextOfGroup ==
  /\ navRes.t = "context"
  /\ navRes.count = Len(GroupOfCall)
  /\ navRes.loc >= 0
  /\ navOp.q \in Range(GroupOfCall) => GroupOfCall[navRes.loc + 1] = navOp.q
  /\ navOp.q \notin Range(GroupOfCall) => navRes.loc = 0

\* C20 as stated: local_context(q) is (index, count), count the number of
\* members of group(q), 0 <= index < count, index the position of q in
\* group(q) when q is a member of it and 0 otherwise.
C20_Original ==
  navOp.name = "local_context" => (ContextOfGroup /\ navRes.loc < navRes.count)

\* C20, amended: as stated, except that index < count is claimed only when
\* group(q) has a member: for a quantum whose parent contains none of the
\* quanta of its kind the result is (0, 0).
C20_LocalContext ==
  navOp.name = "local_context" =>
     (ContextOfGroup /\ (navRes.count > 0 => navRes.loc < navRes.count))

C20_Witness ==
  /\ navOp.name = "local_context" /\ Q(navOp.q).kind = "beat"
  /\ OverlappingUppers(navOp.q) # << >>
  /\ navOp.q \notin Range(GroupOfCall)
  /\ Len(GroupOfCall) = 1
  /\ navRes.loc = 0 /\ navRes.count = 1

\* ------------------------------------------------------------------------
\* Claims about that, ordered_by and beget
\* ------------------------------------------------------------------------
\* The list a call was made on, as it was before the call.
CallItems == heap.lists[navOp.list].items
Pos(items, x) == CHOOSE i \in DOMAIN items : items[i] = x

\* C11 as stated: the descending order is exactly the reverse of the
\* ascending order, groups of equal keys included.
C11_Original ==
  navOp.name = "ordered_by" =>
     navRes.descending.items = Reverse(navRes.ascending.items)

\* C11, amended: both results are new lists of the same kind holding the
\* members of the collection once each; the ascending one runs from low to
\* high keys and the descending one from high to low; in both, members with
\* equal keys keep their original relative order; and when all keys are
\* distinct the descending order is exactly the reverse of the ascending one.
KeysInOrder(items, k, descending) ==
  \A i, j \in DOMAIN items :
     i < j =>
        LET ki == KeyValue(k, Q(items[i]))
            kj == KeyValue(k, Q(items[j]))
        IN /\ IF descending THEN ki >= kj ELSE ki <= kj
           /\ ki = kj => Pos(CallItems, items[i]) < Pos(CallItems, items[j])

C11_DescendingKeepsTies ==
  navOp.name = "ordered_by" =>
     LET a == navRes.ascending
         d == navRes.descending
     IN /\ a.dict = NewListDict(heap.lists[navOp.list].dict.kind)
        /\ d.dict = a.dict
        /\ Len(a.items) = Len(CallItems) /\ Range(a.items) = Range(CallItems)
        /\ Len(d.items) = Len(CallItems) /\ Range(d.items) = Range(CallItems)
        /\ KeysInOrder(a.items, navOp.key, FALSE)
        /\ KeysInOrder(d.items, navOp.key, TRUE)
        /\ (\A x, y \in Range(CallItems) :
               x # y => KeyValue(navOp.key, Q(x)) # KeyValue(navOp.key, Q(y)))
             => d.items = Reverse(a.items)

C11_Witness ==
  /\ navOp.name = "ordered_by" /\ navOp.key = "duration"
  /\ Len(CallItems) = 3
  /\ Q(CallItems[1]).duration < Q(CallItems[2]).duration
  /\ Q(CallItems[2]).duration = Q(CallItems[3]).duration
  /\ navRes.ascending.items = CallItems
  /\ navRes.descending.items = <<CallItems[2], CallItems[3], CallItems[1]>>

\* C12: c.that(p) is a new list of c's kind, without container, holding
\* exactly the members of c for which p holds, in their order in c; c, its
\* members and their containers are as before the call.
C12_ThatFilters ==
  navOp.name = "that" =>
     /\ navRes.t = "list"
     /\ navRes.list.dict.kind = heap.lists[navOp.list].dict.kind
     /\ navRes.list.dict.container = NoneRef
     /\ navRes.list.items = SelectSeq(CallItems, LAMBDA x : FilterHolds(navOp.filt, Q(x)))
     /\ Len(navRes.list.items) <= Len(CallItems)
     /\ heap = navOp.before
     /\ ListAttached(heap, navOp.list, Rec)

C12_Witness ==
  /\ navOp.name = "that" /\ navOp.filt = "long"
  /\ Len(CallItems) = 3
  /\ navRes.list.items = <<CallItems[2], CallItems[3]>>
  /\ navRes.list.dict.kind = "beat"

\* source.that(which(x)) for each member x of self, one after the other.
RECURSIVE Blocks(_, _, _)
Blocks(members, sourceItems, w) ==
  IF members = << >> THEN << >>
  ELSE SelectSeq(sourceItems, LAMBDA y : WhichHolds(w, Q(Head(members)), Q(y)))
       \o Blocks(Tail(members), sourceItems, w)

\* C13: self.beget(source, which) with source a list is one flat list: for
\* each member of self in order, the members of source that which(member)
\* selects, in source order; a member of source appears once for every member
\* of self that selects it.
C13_BegetCrossCollection ==
  (navOp.name = "beget_list" /\ navOp.which # "absent") =>
     LET src == heap.lists[navOp.source].items
     IN /\ navRes.t = "list"
        /\ navRes.list.items = Blocks(CallItems, src, navOp.which)
        /\ \A y \in Range(src) :
              Cardinality({i \in DOMAIN navRes.list.items : navRes.list.items[i] = y}) =
              Cardinality({i \in DOMAIN CallItems :
                             WhichHolds(navOp.which, Q(CallItems[i]), Q(y))})

C13_Witness ==
  /\ navOp.name = "beget_list" /\ navOp.which = "not_before"
  /\ Len(CallItems) = 2 /\ Len(heap.lists[navOp.source].items) = 3
  /\ navOp.list # navOp.source
  /\ LET src == heap.lists[navOp.source].items
     IN navRes.list.items = <<src[2], src[3], src[3]>>

\* What a function given to beget contributes for one member: nothing for
\* None, the quantum, or the elements of the list.
Contribution(out) ==
  IF out.t = "list" THEN out.list.items
  ELSE IF out.t = "quantum" THEN <<out.id>> ELSE << >>

RECURSIVE Contributions(_, _)
Contributions(members, f) ==
  IF members = << >> THEN << >>
  ELSE Contribution(SourceOutput(f, heap, Head(members))) \o Contributions(Tail(members), f)

\* C14: self.beget(f) holds exactly the quanta f produces, in the order of
\* self's members (nothing for a member for which f returns None), so every
\* element is a quantum, and f = (q -> [q]) gives self's members in order.
C14_BegetMapFlatten ==
  (navOp.name = "beget_function" /\ navOp.which = "absent") =>
     /\ navRes.t = "list"
     /\ navRes.list.items = Contributions(CallItems, navOp.source)
     /\ \A i \in DOMAIN navRes.list.items : navRes.list.items[i] # NoneItem
     /\ navOp.source = "singleton" => navRes.list.items = CallItems

\* C15: beget with a list as source and no which raises TypeError and returns
\* no list, whatever self holds (nothing included); the record's lists are as
\* before the call.
C15_MissingWhichFails ==
  (navOp.name = "beget_list" /\ navOp.which = "absent") =>
     /\ navRes = Raised("TypeError")
     /\ heap = navOp.before

C15_Witness ==
  /\ navOp.name = "beget_list" /\ navOp.which = "absent"
  /\ CallItems = << >>
  /\ Len(heap.lists[navOp.source].items) = 3
  /\ navRes = Raised("TypeError")
====
